---- MODULE Spec2Model ----
(***************************************************************************)
(* batctl sys.c: the settings dispatcher handle_sys_setting with its two   *)
(* helpers sys_read_setting and sys_write_setting.  One behaviour of the   *)
(* model is one invocation of handle_sys_setting: the inputs (descriptor,  *)
(* option flag, arguments, target) are chosen in Init and the actions walk *)
(* through the function body in program order.  Every call the function   *)
(* makes to a collaborator is appended to `calls`, every line it prints to *)
(* stderr is appended to `err`.                                            *)
(***************************************************************************)
EXTENDS Integers, Sequences, FiniteSets, TLC

VARIABLES settings, opt, args, mesh_iface, vid, sock,
          pc, buf, path_buff, res, ret, calls, err, frees, nlq

inputs == <<settings, opt, args, mesh_iface, vid, sock>>
vars == <<settings, opt, args, mesh_iface, vid, sock,
          pc, buf, path_buff, res, ret, calls, err, frees, nlq>>

(* ---------------------------- bounds ---------------------------------- *)
NegVids == 2
MaxVid == 11
MaxArgs == 2

(* ------------------------ program constants --------------------------- *)
EXIT_SUCCESS == 0
EXIT_FAILURE == 1
EOPNOTSUPP == 95
ENOMEM == 12

NULL == "NULL"

sysfs_param_enable == <<"enable", "disable", "1", "0">>

(* ------------------------ strings as characters ----------------------- *)
SYS_IFACE_PATH == <<"/","s","y","s","/","c","l","a","s","s","/","n","e","t">>
MeshDir == <<"/","m","e","s","h","/">>
VlanDir == <<"v","l","a","n">>

Digit(d) == <<"0","1","2","3","4","5","6","7","8","9">>[d + 1]

RECURSIVE Unsigned(_)
Unsigned(n) == IF n < 10 THEN <<Digit(n)>>
               ELSE Unsigned(n \div 10) \o <<Digit(n % 10)>>

(* printf's %d *)
FmtD(n) == IF n < 0 THEN <<"-">> \o Unsigned(0 - n) ELSE Unsigned(n)

(* "/sys/class/net/%s/mesh/" *)
SYS_BATIF_PATH_FMT(iface) == SYS_IFACE_PATH \o <<"/">> \o iface \o MeshDir

(* "/sys/class/net/%s/mesh/vlan%d/" *)
SYS_VLAN_PATH(iface, v) ==
    SYS_IFACE_PATH \o <<"/">> \o iface \o MeshDir \o VlanDir \o FmtD(v) \o <<"/">>

(* ------------------------------ inputs -------------------------------- *)
Ifaces == { <<"b">>, <<"b","1">>, <<"b","1","1">> }
Vids == (0 - NegVids) .. MaxVid
ArgVals == {"1", "maybe"}
ArgLists == UNION { [1..n -> ArgVals] : n \in 0..MaxArgs }
Opts == {"none", "h", "other"}

Descriptors ==
    { s \in [netlink_get : BOOLEAN, netlink_set : BOOLEAN,
             sysfs_name : {NULL, "bonding"},
             has_params : BOOLEAN, params : {<<>>, sysfs_param_enable},
             parse : BOOLEAN] :
        ~s.has_params => s.params = <<>> }

(* results the collaborators can hand back *)
ParseResults == {0 - 1, 0, 1, 2}
FileResults == {EXIT_SUCCESS, EXIT_FAILURE}

argc == Len(args) + 1
argv(i) == IF i = 0 THEN "batctl" ELSE args[i]

(* --------------------- decisions taken by the code -------------------- *)

(* handle_sys_setting: if (state->vid >= 0) *)
IsVlanMut(v) == v > 0
IsVlan(v) == v >= 0

(* handle_sys_setting: the two snprintf calls that fill path_buff *)
ResolvePath(iface, v) ==
    IF IsVlan(v) THEN SYS_VLAN_PATH(iface, v) ELSE SYS_BATIF_PATH_FMT(iface)

ResolveTemplate(v) == IF IsVlan(v) THEN "SYS_VLAN_PATH" ELSE "SYS_BATIF_PATH_FMT"

(* handle_sys_setting: if (argc == 1) read, otherwise check_root_or_die *)
AfterResolveMut(n) == IF n = 1 THEN "read" ELSE "parse"
AfterResolve(n) == IF n = 1 THEN "read" ELSE "check_root"

(* sys_read_setting / sys_write_setting: if (res < 0 && res != -EOPNOTSUPP) *)
NlFailedMut(r) == r < 0 - EOPNOTSUPP
NlFailed(r) == r < 0 /\ r # 0 - EOPNOTSUPP

(* sys_read_setting / sys_write_setting: if (res >= 0) *)
NlSucceededMut(r) == r >= 0 - EOPNOTSUPP
NlSucceeded(r) == r >= 0

(* handle_sys_setting: if (res < 0) after settings->parse *)
ParseFailedMut(r) == r < 0 - 1
ParseFailed(r) == r < 0

\* handle_sys_setting: the first walk over settings->params, comparing each
\* entry with argv[1] by strcmp
ParamMatchesMut(params, arg) == \E i \in 1..Len(params) : params[i] # arg
ParamMatches(params, arg) == \E i \in 1..Len(params) : params[i] = arg

\* one line written to stderr
Line(k, t) == [kind |-> k, text |-> t]

\* handle_sys_setting: the two fprintf lines and the second walk over
\* settings->params, one " * %s" line per entry
AllowedLinesMut(params, arg) ==
    <<Line("invalid", arg), Line("allowed_header", "")>>
    \o [i \in 1..(Len(params) - 1) |-> Line("allowed", params[i])]
AllowedLines(params, arg) ==
    <<Line("invalid", arg), Line("allowed_header", "")>>
    \o [i \in 1..Len(params) |-> Line("allowed", params[i])]

\* settings_usage: three lines on stderr
settings_usage ==
    <<Line("usage", ""), Line("parameters", ""), Line("help_option", "")>>

(* sys_write_setting: argc > 2 ? argv[2] : NULL *)
SecondArgMut(n) == IF n >= 2 THEN argv(n - 1) ELSE NULL
SecondArg(n) == IF n > 2 THEN argv(2) ELSE NULL

(* handle_sys_setting: free(path_buff) *)
freeMut(b) == b
free(b) == IF b = "held" THEN "freed" ELSE "invalid_free"

(* --------------------------- sys_simple_nlquery ----------------------- *)

\* strerror, for the errno values the model uses
strerror(e) ==
    IF e = EOPNOTSUPP THEN "Operation not supported"
    ELSE IF e = ENOMEM THEN "Cannot allocate memory"
    ELSE IF e = 22 THEN "Invalid argument"
    ELSE "Unknown error"

\* what the kernel answers to one request: nothing but the plain
\* acknowledgement, a valid data message (v is what the response callback
\* leaves in *result), or an error acknowledgement with nlerr->error = v
AttrResults == {0 - 1, 0}
CbValues == {0 - EOPNOTSUPP, 0, 3}
ErrCodes == {0 - EOPNOTSUPP, 0 - 22}
Replies == [kind : {"none"}, v : {0}] \cup [kind : {"valid"}, v : CbValues]
           \cup [kind : {"error"}, v : ErrCodes]

\* sys_simple_nlerror: the diagnostic unless the code is -EOPNOTSUPP, and
\* *result = nlerr->error
sys_simple_nlerrorMut(code) ==
    [result |-> code,
     err |-> <<Line("error_received", strerror(0 - code))>>]
sys_simple_nlerror(code) ==
    [result |-> code,
     err |-> IF code # 0 - EOPNOTSUPP
             THEN <<Line("error_received", strerror(0 - code))>>
             ELSE <<>>]

\* sys_simple_nlquery: if (!state->sock)
SockMissingMut(sk) == FALSE
SockMissing(sk) == ~sk

\* sys_simple_nlquery: result = -EOPNOTSUPP with a callback, 0 without
DefaultResultMut(callback) == 0
DefaultResult(callback) == IF callback THEN 0 - EOPNOTSUPP ELSE 0

\* sys_simple_nlquery: if (ret < 0) after attribute_cb
AttrFailed(r) == r < 0

\* sys_simple_nlquery: return -ENOMEM, for a failed nlmsg_alloc and for a
\* failed attribute_cb
BuildFailResultMut == 0 - EOPNOTSUPP
BuildFailResult == 0 - ENOMEM

\* nl_recvmsgs with the handlers registered by sys_simple_nlquery: an error
\* acknowledgement runs sys_simple_nlerror, a valid message runs the response
\* callback if one was registered, anything else leaves result alone
nl_recvmsgs(callback, result0, reply) ==
    IF reply.kind = "error"
    THEN LET e == sys_simple_nlerror(reply.v)
         IN  [result |-> e.result, ev |-> <<"sys_simple_nlerror">>,
              err |-> e.err]
    ELSE IF reply.kind = "valid" /\ callback
    THEN [result |-> reply.v, ev |-> <<"callback">>, err |-> <<>>]
    ELSE [result |-> result0, ev |-> <<>>, err |-> <<>>]

\* one run of sys_simple_nlquery: its return value, the library calls it
\* made in order, the lines it printed, the kind of answer it received
QueryRun(sk, attribute_cb, callback, result, ev, lines, answer) ==
    [sock |-> sk, attribute_cb |-> attribute_cb, callback |-> callback,
     result |-> result, ev |-> ev, err |-> lines, answer |-> answer]

\* sys_simple_nlquery(state, nl_cmd, attribute_cb, callback); alloc_ok is
\* whether nlmsg_alloc succeeds, attr_ret what attribute_cb returns, reply
\* what nl_recvmsgs receives
sys_simple_nlquery(sk, attribute_cb, callback, alloc_ok, attr_ret, reply) ==
    IF SockMissing(sk)
    THEN QueryRun(sk, attribute_cb, callback, 0 - EOPNOTSUPP, <<>>, <<>>,
                  "not_sent")
    ELSE
    LET reg == (IF callback THEN <<"nl_cb_set">> ELSE <<>>) \o <<"nl_cb_err">>
    IN  IF ~alloc_ok
        THEN QueryRun(sk, attribute_cb, callback, BuildFailResult,
                      reg \o <<"nlmsg_alloc_failed">>, <<>>, "not_sent")
        ELSE
        LET built == reg \o <<"nlmsg_alloc", "genlmsg_put", "nla_put_u32">>
        IN  IF attribute_cb /\ AttrFailed(attr_ret)
            THEN QueryRun(sk, attribute_cb, callback, BuildFailResult,
                          built \o <<"attribute_cb_failed", "nlmsg_free">>,
                          <<>>, "not_sent")
            ELSE
            LET rx == nl_recvmsgs(callback, DefaultResult(callback), reply)
            IN  QueryRun(sk, attribute_cb, callback, rx.result,
                         built
                         \o (IF attribute_cb THEN <<"attribute_cb">> ELSE <<>>)
                         \o <<"nl_send_auto_complete", "nlmsg_free",
                              "nl_recvmsgs">>
                         \o rx.ev,
                         rx.err,
                         IF reply.kind = "valid" /\ ~callback THEN "none"
                         ELSE reply.kind)

\* every run the executor can take for the given socket and callbacks
QueryRuns(sk, attribute_cb, callback) ==
    { sys_simple_nlquery(sk, attribute_cb, callback, ok, ar, rp) :
        ok \in BOOLEAN, ar \in AttrResults, rp \in Replies }

\* settings->netlink_get: a query with a response callback and no attribute
\* callback; settings->netlink_set: a query with an attribute callback and
\* no response callback
netlink_get(sk) == QueryRuns(sk, FALSE, TRUE)
netlink_set(sk) == QueryRuns(sk, TRUE, FALSE)

NlResults == { q.result : q \in netlink_get(TRUE) \cup netlink_set(TRUE) }

\* one call to a collaborator: what was called, with which arguments, what it
\* returned, and whether path_buff was held at that moment
Call(op, path, name, a1, a2, result) ==
    [op |-> op, path |-> path, name |-> name, a1 |-> a1, a2 |-> a2,
     result |-> result, buf |-> buf]

\* sys_read_setting / sys_write_setting: the one call of the protocol
\* operation, res = settings->netlink_get(state) / netlink_set(state)
NlAttemptMut(op, nl) ==
    IF nl = 0 - EOPNOTSUPP
    THEN <<Call(op, <<>>, NULL, NULL, NULL, nl),
           Call(op, <<>>, NULL, NULL, NULL, nl)>>
    ELSE <<Call(op, <<>>, NULL, NULL, NULL, nl)>>
NlAttempt(op, nl) == <<Call(op, <<>>, NULL, NULL, NULL, nl)>>

\* sys_read_setting(state, path_buff, sysfs_name): nl is what netlink_get
\* returns if it is called, fr what read_file returns if it is called
sys_read_setting(s, path, nl, fr) ==
    LET c1 == IF s.netlink_get
              THEN NlAttempt("netlink_get", nl)
              ELSE <<>>
    IN  IF s.netlink_get /\ NlFailed(nl)
        THEN [res |-> EXIT_FAILURE, calls |-> c1]
        ELSE IF s.netlink_get /\ NlSucceeded(nl)
        THEN [res |-> EXIT_SUCCESS, calls |-> c1]
        ELSE IF s.sysfs_name # NULL
        THEN [res |-> fr,
              calls |-> c1 \o <<Call("read_file", path, s.sysfs_name,
                                     NULL, NULL, fr)>>]
        ELSE [res |-> IF s.netlink_get THEN nl ELSE EXIT_FAILURE,
              calls |-> c1]

\* sys_write_setting(state, path_buff, sysfs_name, argc, argv)
sys_write_setting(s, path, nl, fr) ==
    LET c1 == IF s.netlink_set
              THEN NlAttempt("netlink_set", nl)
              ELSE <<>>
    IN  IF s.netlink_set /\ NlFailed(nl)
        THEN [res |-> EXIT_FAILURE, calls |-> c1]
        ELSE IF s.netlink_set /\ NlSucceeded(nl)
        THEN [res |-> EXIT_SUCCESS, calls |-> c1]
        ELSE IF s.sysfs_name # NULL
        THEN [res |-> fr,
              calls |-> c1 \o <<Call("write_file", path, s.sysfs_name,
                                     argv(1), SecondArg(argc), fr)>>]
        ELSE [res |-> IF s.netlink_set THEN nl ELSE EXIT_FAILURE,
              calls |-> c1]

(* ------------------------------ Init ---------------------------------- *)
Init ==
    /\ settings \in Descriptors
    /\ opt \in Opts
    /\ args \in ArgLists
    /\ mesh_iface \in Ifaces
    /\ vid \in Vids
    /\ sock \in BOOLEAN
    /\ pc = "getopt"
    /\ buf = "none"
    /\ path_buff = <<>>
    /\ res = EXIT_FAILURE
    /\ ret = <<>>
    /\ calls = <<>>
    /\ err = <<>>
    /\ frees = 0
    /\ nlq = <<>>

(* ----------------- handle_sys_setting, in program order --------------- *)

\* the switch in the getopt loop: case 'h' returns EXIT_SUCCESS, default
\* returns EXIT_FAILURE
GetoptStatusMut(o) == EXIT_FAILURE
GetoptStatus(o) == IF o = "h" THEN EXIT_SUCCESS ELSE EXIT_FAILURE

\* the getopt loop: -h, an unrecognised flag, or no flag at all
ParseOptions ==
    /\ pc = "getopt"
    /\ IF opt \in {"h", "other"}
       THEN /\ err' = err \o settings_usage
            /\ ret' = <<GetoptStatus(opt)>>
            /\ pc' = "done"
       ELSE /\ pc' = "malloc"
            /\ UNCHANGED <<err, ret>>
    /\ UNCHANGED <<inputs, buf, path_buff, res, calls, frees, nlq>>

\* path_buff = malloc(PATH_BUFF_LEN), which may fail
AllocPath ==
    /\ pc = "malloc"
    /\ \E ok \in BOOLEAN :
         IF ok
         THEN /\ buf' = "held"
              /\ pc' = "resolve"
              /\ UNCHANGED <<err, ret>>
         ELSE /\ err' = Append(err, Line("out_of_memory", ""))
              /\ ret' = <<EXIT_FAILURE>>
              /\ pc' = "done"
              /\ UNCHANGED buf
    /\ UNCHANGED <<inputs, path_buff, res, calls, frees, nlq>>

\* the snprintf calls of one invocation: one, with the template the vid
\* selects
SnprintfsMut(iface, v) ==
    IF IsVlan(v)
    THEN <<Call("snprintf", SYS_VLAN_PATH(iface, v), "SYS_VLAN_PATH",
                NULL, NULL, 0),
           Call("snprintf", SYS_BATIF_PATH_FMT(iface), "SYS_BATIF_PATH_FMT",
                NULL, NULL, 0)>>
    ELSE <<Call("snprintf", SYS_BATIF_PATH_FMT(iface), "SYS_BATIF_PATH_FMT",
                NULL, NULL, 0)>>
Snprintfs(iface, v) ==
    <<Call("snprintf", ResolvePath(iface, v), ResolveTemplate(v),
           NULL, NULL, 0)>>

\* the snprintf into path_buff and the branch on argc
Resolve ==
    /\ pc = "resolve"
    /\ LET w == Snprintfs(mesh_iface, vid)
       IN  /\ path_buff' = w[Len(w)].path
           /\ calls' = calls \o w
    /\ pc' = AfterResolve(argc)
    /\ UNCHANGED <<inputs, buf, res, ret, err, frees, nlq>>

\* res = sys_read_setting(...); goto out
Read ==
    /\ pc = "read"
    /\ \E q \in netlink_get(sock), fr \in FileResults :
         LET r == sys_read_setting(settings, path_buff, q.result, fr)
         IN  /\ res' = r.res
             /\ calls' = calls \o r.calls
             /\ nlq' = IF settings.netlink_get THEN <<q>> ELSE <<>>
             /\ err' = IF settings.netlink_get THEN err \o q.err ELSE err
    /\ pc' = "out"
    /\ UNCHANGED <<inputs, buf, path_buff, ret, frees>>

\* check_root_or_die("batctl"): returns for root, ends the process otherwise
check_root_or_die ==
    /\ pc = "check_root"
    /\ \E root \in BOOLEAN :
         /\ calls' = Append(calls, Call("check_root_or_die", <<>>, NULL, NULL,
                                        NULL, IF root THEN 0 ELSE 1))
         /\ pc' = IF root THEN "parse" ELSE "exited"
    /\ UNCHANGED <<inputs, buf, path_buff, res, ret, err, frees, nlq>>

\* if (settings->parse) res = settings->parse(state, argc, argv)
Parse ==
    /\ pc = "parse"
    /\ IF settings.parse
       THEN \E pr \in ParseResults :
              /\ calls' = Append(calls, Call("parse", <<>>, NULL, NULL, NULL, pr))
              /\ IF ParseFailed(pr)
                 THEN res' = EXIT_FAILURE /\ pc' = "out"
                 ELSE res' = pr /\ pc' = "params"
       ELSE /\ pc' = "params"
            /\ UNCHANGED <<res, calls>>
    /\ UNCHANGED <<inputs, buf, path_buff, ret, err, frees, nlq>>

\* the allow-list check: no list, a matching entry, or the diagnostic
CheckParams ==
    /\ pc = "params"
    /\ IF ~settings.has_params \/ ParamMatches(settings.params, argv(1))
       THEN /\ pc' = "write_file"
            /\ UNCHANGED err
       ELSE /\ err' = err \o AllowedLines(settings.params, argv(1))
            /\ pc' = "out"
    /\ UNCHANGED <<inputs, buf, path_buff, res, ret, calls, frees, nlq>>

\* write_file: res = sys_write_setting(...)
Write ==
    /\ pc = "write_file"
    /\ \E q \in netlink_set(sock), fr \in FileResults :
         LET r == sys_write_setting(settings, path_buff, q.result, fr)
         IN  /\ res' = r.res
             /\ calls' = calls \o r.calls
             /\ nlq' = IF settings.netlink_set THEN <<q>> ELSE <<>>
             /\ err' = IF settings.netlink_set THEN err \o q.err ELSE err
    /\ pc' = "out"
    /\ UNCHANGED <<inputs, buf, path_buff, ret, frees>>

\* out: free(path_buff); return res
Out ==
    /\ pc = "out"
    /\ buf' = free(buf)
    /\ frees' = frees + 1
    /\ ret' = <<res>>
    /\ pc' = "done"
    /\ UNCHANGED <<inputs, path_buff, res, calls, err, nlq>>

Next ==
    \/ ParseOptions
    \/ AllocPath
    \/ Resolve
    \/ Read
    \/ check_root_or_die
    \/ Parse
    \/ CheckParams
    \/ Write
    \/ Out

Spec == Init /\ [][Next]_vars

TypeOK ==
    /\ pc \in {"getopt", "malloc", "resolve", "read", "check_root", "parse",
               "params", "write_file", "out", "done", "exited"}
    /\ buf \in {"none", "held", "freed", "invalid_free"}
    /\ Len(ret) <= 1
    /\ Len(nlq) <= 1
    /\ \A i \in 1..Len(nlq) : nlq[i].result \in NlResults

(* ------------------- vocabulary of the properties --------------------- *)
CallIdx == 1..Len(calls)
ProtoOps == {"netlink_get", "netlink_set"}
LegacyOps == {"read_file", "write_file"}
BackendWriteOps == {"netlink_set", "write_file"}
Called(ops) == {i \in CallIdx : calls[i].op \in ops}
Unsupported == 0 - EOPNOTSUPP

IsWrite == argc > 1
RootPassed == \E i \in CallIdx : calls[i].op = "check_root_or_die" /\ calls[i].result = 0
ParseRejected == \E i \in CallIdx : calls[i].op = "parse" /\ calls[i].result < 0
NonEmptyList == settings.has_params /\ settings.params # <<>>
Mismatch == \A k \in 1..Len(settings.params) : settings.params[k] # argv(1)

\* the texts of the " * %s" lines of the diagnostic, in output order
AllowedTexts ==
    LET idx == {i \in 1..Len(err) : err[i].kind = "allowed"}
        RECURSIVE pick(_)
        pick(n) == IF n = 0 THEN <<>>
                   ELSE IF n \in idx THEN Append(pick(n - 1), err[n].text)
                   ELSE pick(n - 1)
    IN  pick(Len(err))

\* the target descriptor: interface name and optional VLAN id, every negative
\* vid standing for "no VLAN"
Target(iface, v) == <<iface, IF v < 0 THEN 0 - 1 ELSE v>>

(* ------------------------------ C1 ------------------------------------ *)
\* C1: when the protocol operation was called and returned anything other
\* than -EOPNOTSUPP, read_file / write_file is never called in the invocation.
C1_NoLegacyAfterDecisiveProtocol ==
    (\E i \in Called(ProtoOps) : calls[i].result # Unsupported)
        => Called(LegacyOps) = {}

C1_Witness ==
    /\ pc = "done"
    /\ settings.sysfs_name # NULL
    /\ \E i \in Called(ProtoOps) : calls[i].result = 0 - ENOMEM
    /\ Called(LegacyOps) = {}

(* ------------------------------ C2 ------------------------------------ *)
\* C2 as stated: whenever the protocol operation returned -EOPNOTSUPP, the
\* finished invocation has consulted the legacy backend exactly once, with
\* the resolved path and the descriptor's entry name, for every descriptor.
C2_Original ==
    (pc = "done" /\ \E i \in Called(ProtoOps) : calls[i].result = Unsupported)
        => /\ Cardinality(Called(LegacyOps)) = 1
           /\ \A j \in Called(LegacyOps) :
                /\ calls[j].path = ResolvePath(mesh_iface, vid)
                /\ calls[j].name = settings.sysfs_name

\* C2 amended: whenever the protocol operation returned -EOPNOTSUPP and the
\* descriptor declares a legacy entry name, the finished invocation has
\* consulted the legacy backend exactly once, after the protocol call, with
\* the path resolved from (mesh_iface, vid) and that entry name; when no
\* entry name is declared the legacy backend is not consulted at all.
C2_FallbackOnceWhenDeclared ==
    (pc = "done" /\ \E i \in Called(ProtoOps) : calls[i].result = Unsupported)
        => IF settings.sysfs_name # NULL
           THEN /\ Cardinality(Called(LegacyOps)) = 1
                /\ \A j \in Called(LegacyOps) :
                     /\ calls[j].path = ResolvePath(mesh_iface, vid)
                     /\ calls[j].name = settings.sysfs_name
                     /\ \A i \in Called(ProtoOps) : i < j
           ELSE Called(LegacyOps) = {}

C2_Witness ==
    /\ pc = "done"
    /\ vid = 11
    /\ \E i \in Called({"netlink_get"}) : calls[i].result = Unsupported
    /\ \E j \in Called({"read_file"}) :
         calls[j].path = SYS_VLAN_PATH(mesh_iface, 11)

(* ------------------------------ C3 ------------------------------------ *)
\* C3 as stated: a write (privilege check passed) on a descriptor with a
\* non-empty allow-list whose first value matches no entry calls no backend,
\* and once it has returned the diagnostic lists every entry, each once, in
\* declared order.
C3_Original ==
    (IsWrite /\ RootPassed /\ NonEmptyList /\ Mismatch)
        => /\ Called(ProtoOps \cup LegacyOps) = {}
           /\ pc = "done" => AllowedTexts = settings.params

\* C3 amended: the same, for writes whose parse hook is absent or returned a
\* non-negative result; when the hook returned a negative result no backend
\* is called either, but no allow-list entry is printed.
C3_MismatchListsAllowList ==
    (IsWrite /\ RootPassed /\ NonEmptyList /\ Mismatch)
        => /\ Called(ProtoOps \cup LegacyOps) = {}
           /\ pc = "done" =>
                IF ParseRejected THEN AllowedTexts = <<>>
                ELSE AllowedTexts = settings.params

C3_Witness ==
    /\ pc = "done"
    /\ IsWrite /\ RootPassed /\ NonEmptyList /\ Mismatch /\ ~ParseRejected
    /\ argv(1) = "maybe"
    /\ AllowedTexts = <<"enable", "disable", "1", "0">>
    /\ Called(ProtoOps \cup LegacyOps) = {}

(* ------------------------------ C4 ------------------------------------ *)
\* C4: a write on a descriptor with a non-empty allow-list whose first value
\* matches no entry, and that got as far as the allow-list check, returns
\* EXIT_FAILURE, with or without a parse hook and whatever non-negative
\* value the hook returned.
C4_MismatchReturnsFailure ==
    (pc = "done" /\ IsWrite /\ RootPassed /\ NonEmptyList /\ Mismatch
        /\ ~ParseRejected)
        => ret = <<EXIT_FAILURE>>

(* ------------------------------ C5 ------------------------------------ *)
\* C5: in a write on a descriptor with a parse hook, the hook is called
\* before the allow-list check and before any backend call; if it returns a
\* negative result the invocation returns EXIT_FAILURE, having called neither
\* the protocol write nor the legacy write (nor run the allow-list check).
C5_ParseHookFirst ==
    (IsWrite /\ settings.parse)
        => /\ pc \in {"params", "write_file"} => Called({"parse"}) # {}
           /\ (\E k \in 1..Len(err) : err[k].kind = "invalid")
                => Called({"parse"}) # {}
           /\ \A j \in Called(ProtoOps \cup LegacyOps) :
                \E i \in Called({"parse"}) : i < j
           /\ ParseRejected =>
                /\ Called(ProtoOps \cup LegacyOps) = {}
                /\ err = <<>>
                /\ pc \in {"out", "done"}
                /\ pc = "done" => ret = <<EXIT_FAILURE>>

C5_Witness ==
    /\ pc = "done"
    /\ IsWrite /\ settings.parse /\ ParseRejected
    /\ settings.netlink_set /\ settings.sysfs_name # NULL
    /\ ret = <<EXIT_FAILURE>>

(* ------------------------------ C6 ------------------------------------ *)
\* C6: every value handle_sys_setting returns is EXIT_SUCCESS or
\* EXIT_FAILURE, for every descriptor and every protocol outcome, the legacy
\* accessor returning only those two values.
C6_TwoValuedExit ==
    pc = "done" => ret \in {<<EXIT_SUCCESS>>, <<EXIT_FAILURE>>}

(* ------------------------------ C7 ------------------------------------ *)
\* the path every (interface name, vid) of the input domain resolves to
ResolvedPaths == [t \in Ifaces \X Vids |-> ResolvePath(t[1], t[2])]

\* C7: once the path is resolved, no other target descriptor (interface
\* name, VLAN id or none) resolves to the same path; vid 0 is formatted with
\* the VLAN template, and the physical template is used exactly for the
\* negative vids.
C7_PathInjective ==
    \A k \in Called({"snprintf"}) :
        /\ path_buff = calls[k].path
        /\ \A t \in Ifaces \X Vids :
             Target(t[1], t[2]) # Target(mesh_iface, vid)
                 => ResolvedPaths[t] # path_buff
        /\ vid = 0 => /\ calls[k].name = "SYS_VLAN_PATH"
                      /\ path_buff = SYS_VLAN_PATH(mesh_iface, 0)
                      /\ path_buff # SYS_BATIF_PATH_FMT(mesh_iface)
        /\ calls[k].name = "SYS_BATIF_PATH_FMT" <=> vid < 0
        /\ vid < 0 => path_buff = SYS_BATIF_PATH_FMT(mesh_iface)

C7_Witness ==
    /\ vid = 0
    /\ mesh_iface = <<"b", "1">>
    /\ \E k \in Called({"snprintf"}) : calls[k].name = "SYS_VLAN_PATH"
    /\ path_buff = SYS_IFACE_PATH \o <<"/", "b", "1">> \o MeshDir
                   \o <<"v", "l", "a", "n", "0", "/">>

(* ------------------------------ C8 ------------------------------------ *)
\* the write got past validation: privilege check passed, parse hook absent
\* or non-negative, allow-list absent or matched
PassedValidation ==
    /\ IsWrite /\ RootPassed /\ ~ParseRejected
    /\ settings.parse => Called({"parse"}) # {}
    /\ ~settings.has_params \/ ~Mismatch

\* C8: a validated write on a descriptor without netlink_set but with a
\* legacy entry name calls write_file exactly once, with the resolved path,
\* the entry name, argv[1] unchanged and argv[2] if supplied (NULL
\* otherwise), calls no protocol operation, and returns what write_file
\* returned.
C8_LegacyOnlyWrite ==
    (pc = "done" /\ PassedValidation /\ ~settings.netlink_set
        /\ settings.sysfs_name # NULL)
        => /\ Cardinality(Called({"write_file"})) = 1
           /\ Called(ProtoOps \cup {"read_file"}) = {}
           /\ \A j \in Called({"write_file"}) :
                /\ calls[j].path = ResolvePath(mesh_iface, vid)
                /\ calls[j].name = settings.sysfs_name
                /\ calls[j].a1 = args[1]
                /\ calls[j].a2 = (IF Len(args) >= 2 THEN args[2] ELSE NULL)
                /\ ret = <<calls[j].result>>

C8_Witness ==
    /\ pc = "done"
    /\ PassedValidation /\ ~settings.netlink_set /\ NonEmptyList
    /\ args = <<"1">>
    /\ vid < 0
    /\ \E j \in Called({"write_file"}) :
         /\ calls[j].a1 = "1" /\ calls[j].a2 = NULL
         /\ calls[j].path = SYS_BATIF_PATH_FMT(mesh_iface)
         /\ calls[j].result = EXIT_FAILURE
    /\ ret = <<EXIT_FAILURE>>

(* ------------------------------ C9 ------------------------------------ *)
\* C9: every protocol-write and legacy-write call is preceded, in the same
\* invocation, by a privilege check that passed; a failed privilege check is
\* the last thing the invocation does (the process ends, no backend is
\* called); an invocation without a value argument never runs the check.
C9_PrivilegeBeforeMutation ==
    /\ \A j \in Called(BackendWriteOps) :
         \E i \in Called({"check_root_or_die"}) : i < j /\ calls[i].result = 0
    /\ \A i \in Called({"check_root_or_die"}) :
         calls[i].result # 0 =>
             /\ pc = "exited"
             /\ i = Len(calls)
             /\ Called(ProtoOps \cup LegacyOps) = {}
    /\ IsWrite /\ pc \in {"parse", "params", "write_file"} => RootPassed
    /\ ~IsWrite => Called({"check_root_or_die"}) = {}

C9_Witness ==
    /\ pc = "done"
    /\ \E i \in Called({"check_root_or_die"}), j \in Called({"netlink_set"}),
          k \in Called({"write_file"}) : i < j /\ j < k

(* ------------------------------ C10 ----------------------------------- *)
\* C10: whenever handle_sys_setting has returned, path_buff is not held; it
\* is freed at most once and only while held; read_file and write_file only
\* ever receive it while it is held.
C10_PathBufferReleased ==
    /\ pc = "done" => buf \in {"none", "freed"}
    /\ frees <= 1
    /\ buf # "invalid_free"
    /\ buf = "freed" => frees = 1 /\ pc = "done"
    /\ \A j \in Called(LegacyOps) : calls[j].buf = "held"

C10_Witness ==
    /\ pc = "done"
    /\ buf = "freed"
    /\ frees = 1
    /\ ParseRejected

(* ------------------ vocabulary of the executor properties ------------- *)
QIdx == 1..Len(nlq)
Did(q, what) == {i \in 1..Len(q.ev) : q.ev[i] = what}
Kinds(k) == {i \in 1..Len(err) : err[i].kind = k}
LegacyFailed == \E j \in Called(LegacyOps) : calls[j].result # EXIT_SUCCESS
ParseRan == settings.parse => Called({"parse"}) # {}
DeclaredProto == IF IsWrite THEN settings.netlink_set ELSE settings.netlink_get

\* the invocation got as far as sys_read_setting / sys_write_setting
Attempted ==
    /\ Called({"snprintf"}) # {}
    /\ IsWrite => PassedValidation

\* after an unsupported protocol result the dispatcher takes the legacy path:
\* one legacy access whose result is returned when an entry name is
\* declared, no legacy access otherwise
TookFallback ==
    IF settings.sysfs_name # NULL
    THEN /\ Cardinality(Called(LegacyOps)) = 1
         /\ \A j \in Called(LegacyOps) : ret = <<calls[j].result>>
    ELSE Called(LegacyOps) = {}

(* ------------------------------ C11 ----------------------------------- *)
\* C11: an invocation that returns EXIT_FAILURE has written at least one
\* line to stderr (the cases in which read_file, write_file or the parse hook
\* failed are left to those collaborators and not counted here).
C11_FailureHasDiagnostic ==
    (pc = "done" /\ ret = <<EXIT_FAILURE>> /\ ~LegacyFailed /\ ~ParseRejected)
        => err # <<>>

(* ------------------------------ C12 ----------------------------------- *)
\* C12: an invocation that reaches the backends on a descriptor without a
\* legacy entry name, and whose protocol operation is undeclared or returned
\* -EOPNOTSUPP, returns EXIT_FAILURE and calls no legacy backend (and no
\* protocol operation when none is declared).
C12_NotFoundFails ==
    (pc = "done" /\ Attempted /\ settings.sysfs_name = NULL
        /\ (~DeclaredProto
            \/ \E i \in Called(ProtoOps) : calls[i].result = Unsupported))
        => /\ ret = <<EXIT_FAILURE>>
           /\ Called(LegacyOps) = {}
           /\ ~DeclaredProto => Called(ProtoOps) = {}

(* ------------------------------ C13 ----------------------------------- *)
\* C13: with -h the invocation prints the usage and returns EXIT_SUCCESS,
\* with an unrecognised flag it prints the usage and returns EXIT_FAILURE;
\* in both cases, value argument or not, nothing else happens: no buffer, no
\* path, no privilege check, no parse hook, no allow-list check, no backend.
C13_OptionsFirst ==
    opt \in {"h", "other"}
        => /\ pc \in {"getopt", "done"}
           /\ calls = <<>> /\ nlq = <<>>
           /\ buf = "none" /\ path_buff = <<>> /\ frees = 0
           /\ pc = "done" =>
                /\ err = settings_usage
                /\ opt = "h" => ret = <<EXIT_SUCCESS>>
                /\ opt = "other" => ret = <<EXIT_FAILURE>>

C13_Witness ==
    /\ pc = "done"
    /\ opt = "h"
    /\ args = <<"maybe", "1">>
    /\ ret = <<EXIT_SUCCESS>>
    /\ Len(err) = 3

(* ------------------------------ C14 ----------------------------------- *)
Rejected == Kinds("invalid") # {}
WriteAttempted ==
    /\ settings.netlink_set => Called({"netlink_set"}) # {}
    /\ ~settings.netlink_set /\ settings.sysfs_name # NULL
           => Called({"write_file"}) # {}

\* C14 as stated: a write that reaches the allow-list check on a descriptor
\* whose allow-list is absent, or declared but empty, is never rejected and
\* goes on to the protocol-write / legacy-write attempt.
C14_Original ==
    (pc = "done" /\ IsWrite /\ RootPassed /\ ~ParseRejected /\ ParseRan
        /\ (~settings.has_params \/ settings.params = <<>>))
        => ~Rejected /\ WriteAttempted

\* C14 amended: a write that reaches the allow-list check is rejected
\* exactly when the descriptor declares an allow-list and no entry of it
\* equals the first value argument, which includes every declared but empty
\* list; only an absent list accepts every value.  A rejected write calls no
\* backend, an accepted one goes on to the write attempt.
C14_RejectedIffDeclaredAndUnmatched ==
    (pc = "done" /\ IsWrite /\ RootPassed /\ ~ParseRejected /\ ParseRan)
        => /\ Rejected <=> (settings.has_params /\ Mismatch)
           /\ Rejected => Called(ProtoOps \cup LegacyOps) = {}
           /\ ~Rejected => WriteAttempted
           /\ ~settings.has_params => ~Rejected

C14_Witness ==
    /\ pc = "done"
    /\ IsWrite /\ RootPassed /\ ~ParseRejected /\ ParseRan
    /\ settings.has_params /\ settings.params = <<>>
    /\ settings.netlink_set /\ settings.sysfs_name # NULL
    /\ Rejected
    /\ Called(ProtoOps \cup LegacyOps) = {}

(* ------------------------------ C15 ----------------------------------- *)
\* C15: without a socket sys_simple_nlquery returns -EOPNOTSUPP having
\* registered no handler, built no message, sent and received nothing and
\* printed nothing; the dispatcher sees an unsupported protocol result and
\* takes the legacy path.
C15_NoSocketIsUnsupported ==
    \A n \in QIdx :
        ~nlq[n].sock
            => /\ nlq[n].result = Unsupported
               /\ nlq[n].ev = <<>>
               /\ nlq[n].err = <<>>
               /\ \A i \in Called(ProtoOps) : calls[i].result = Unsupported
               /\ pc = "done" => TookFallback

C15_Witness ==
    /\ pc = "done"
    /\ ~sock
    /\ nlq # <<>>
    /\ Called({"netlink_get"}) # {}
    /\ Called({"read_file"}) # {}

(* ------------------------------ C16 ----------------------------------- *)
\* C16: after an error acknowledgement the executor returns the code; for
\* -EOPNOTSUPP it prints nothing, for any other code it prints exactly one
\* line naming strerror of the code, and the invocation then returns
\* EXIT_FAILURE without a legacy access.
C16_ErrorAcknowledgement ==
    \A n \in QIdx :
        nlq[n].answer = "error"
            => /\ Cardinality(Did(nlq[n], "sys_simple_nlerror")) = 1
               /\ IF nlq[n].result = Unsupported
                  THEN /\ nlq[n].err = <<>>
                       /\ Kinds("error_received") = {}
                  ELSE /\ nlq[n].result < 0
                       /\ Cardinality(Kinds("error_received")) = 1
                       /\ \A k \in Kinds("error_received") :
                            err[k].text = strerror(0 - nlq[n].result)
                       /\ Called(LegacyOps) = {}
                       /\ pc = "done" => ret = <<EXIT_FAILURE>>

C16_Witness ==
    /\ pc = "done"
    /\ settings.sysfs_name # NULL
    /\ \E n \in QIdx : nlq[n].answer = "error" /\ nlq[n].result = 0 - 22
    /\ err = <<Line("error_received", "Invalid argument")>>
    /\ ret = <<EXIT_FAILURE>>

(* ------------------------------ C17 ----------------------------------- *)
\* C17: an invocation makes at most one protocol operation call and at most
\* one legacy access, the protocol call first; one sys_simple_nlquery run
\* sends at most one request and receives at most once, after the send.
C17_AtMostOneOfEach ==
    /\ Cardinality(Called(ProtoOps)) <= 1
    /\ Cardinality(Called(LegacyOps)) <= 1
    /\ \A i \in Called(ProtoOps), j \in Called(LegacyOps) : i < j
    /\ Len(nlq) <= 1
    /\ Len(nlq) = Cardinality(Called(ProtoOps))
    /\ \A n \in QIdx :
         /\ Cardinality(Did(nlq[n], "nl_send_auto_complete")) <= 1
         /\ Cardinality(Did(nlq[n], "nl_recvmsgs")) <= 1
         /\ \A r \in Did(nlq[n], "nl_recvmsgs") :
              \E x \in Did(nlq[n], "nl_send_auto_complete") : x < r

C17_Witness ==
    /\ pc = "done"
    /\ \E i \in Called({"netlink_set"}), j \in Called({"write_file"}) :
         i < j /\ calls[i].result = Unsupported
    /\ \E n \in QIdx : Did(nlq[n], "nl_send_auto_complete") # {}

(* ------------------------------ C18 ----------------------------------- *)
\* C18: once past option parsing, allocation and resolution, the invocation
\* has formatted the path exactly once, as its first call (so before the
\* privilege check and before any backend), with one of the two templates;
\* path_buff holds that path and every legacy access receives it.
C18_ResolvedOnce ==
    (buf # "none" /\ pc # "resolve")
        => /\ Cardinality(Called({"snprintf"})) = 1
           /\ calls[1].op = "snprintf"
           /\ calls[1].name \in {"SYS_VLAN_PATH", "SYS_BATIF_PATH_FMT"}
           /\ path_buff = calls[1].path
           /\ \A j \in Called(LegacyOps) : calls[j].path = calls[1].path

C18_Witness ==
    /\ pc = "done"
    /\ vid = 1
    /\ Len(calls) >= 3
    /\ calls[1].name = "SYS_VLAN_PATH"
    /\ \E i \in Called({"check_root_or_die"}), j \in Called({"write_file"}) :
         1 < i /\ i < j /\ calls[j].path = SYS_VLAN_PATH(mesh_iface, 1)

(* ------------------------------ C19 ----------------------------------- *)
\* C19: a query that was sent and whose receive phase ran neither the
\* response callback nor sys_simple_nlerror returns -EOPNOTSUPP when a
\* response callback was given, and the read then takes the legacy path; it
\* returns 0 when no response callback was given, and the invocation then
\* returns EXIT_SUCCESS without a legacy access.
C19_DefaultResult ==
    \A n \in QIdx :
        nlq[n].answer = "none"
            => /\ Did(nlq[n], "nl_recvmsgs") # {}
               /\ nlq[n].callback =>
                    /\ nlq[n].result = Unsupported
                    /\ pc = "done" => TookFallback
               /\ ~nlq[n].callback =>
                    /\ nlq[n].result = 0
                    /\ Called(LegacyOps) = {}
                    /\ pc = "done" => ret = <<EXIT_SUCCESS>>

C19_Witness ==
    /\ pc = "done"
    /\ ~IsWrite
    /\ \E n \in QIdx : nlq[n].answer = "none" /\ nlq[n].callback
    /\ Called({"read_file"}) # {}

(* ------------------------------ C20 ----------------------------------- *)
\* C20: when nlmsg_alloc fails or attribute_cb returns a negative value the
\* query returns a negative code other than -EOPNOTSUPP, having sent and
\* received nothing; the invocation returns EXIT_FAILURE without a legacy
\* access.
C20_BuildFailureIsTerminal ==
    \A n \in QIdx :
        (Did(nlq[n], "nlmsg_alloc_failed") # {}
            \/ Did(nlq[n], "attribute_cb_failed") # {})
            => /\ nlq[n].result < 0
               /\ nlq[n].result # Unsupported
               /\ Did(nlq[n], "nl_send_auto_complete") = {}
               /\ Did(nlq[n], "nl_recvmsgs") = {}
               /\ Called(LegacyOps) = {}
               /\ pc = "done" => ret = <<EXIT_FAILURE>>

C20_Witness ==
    /\ pc = "done"
    /\ IsWrite
    /\ settings.sysfs_name # NULL
    /\ \E n \in QIdx : Did(nlq[n], "attribute_cb_failed") # {}
    /\ Called(LegacyOps) = {}
    /\ ret = <<EXIT_FAILURE>>

====
